---- MODULE Spec2Model ----
(***************************************************************************)
(* The Mpd block of i3status-rust (src/blocks/mpd.rs): a status-bar widget *)
(* that polls a music player daemon over one long-lived connection,        *)
(* renders a format template from the fetched status, reconnects when the  *)
(* status probe fails and maps click/scroll events to player commands.     *)
(***************************************************************************)
EXTENDS Integers, Sequences, FiniteSets, TLC

\* Number of connection handles one behaviour may open (initial connect
\* included); the guard of the reconnect stops before a further connect.
MaxConn == 3

\* Number of scroll events (WheelUp, WheelDown) one behaviour delivers to the
\* widget.
MaxScroll == 1

\* Option<T>: None is the empty tuple, Some(v) the one-element tuple.
None == <<>>
Some(v) == <<v>>
IsSome(o) == o # <<>>
Unwrap(o) == o[1]

Min(a, b) == IF a < b THEN a ELSE b
Max(a, b) == IF a > b THEN a ELSE b

(***************************************************************************)
(* Configuration (MpdConfig) and the format template.                      *)
(***************************************************************************)
\* MpdConfig::default_format, as the token list FormatTemplate parses it to.
default_format ==
    << "{artist}", " - ", "{title}", " [", "{playback_info}", "]",
       "{repeat}", "{random}", "{single}", "{consume}" >>

\* The value FormatTemplate::from_string has no token list for.
InvalidTemplate == << "<invalid>" >>

\* The format strings a configuration may carry, already tokenised.
Formats == { default_format, InvalidTemplate }

\* FormatTemplate::from_string: Err for a structurally invalid template.
from_string_ok(fmt) == fmt # InvalidTemplate

\* The rendering of the tokens of fmt from the i-th on.
RECURSIVE render_from(_, _, _)
render_from(fmt, vals, i) ==
    IF i > Len(fmt) THEN ""
    ELSE (IF fmt[i] \in DOMAIN vals THEN vals[fmt[i]] ELSE fmt[i])
             \o render_from(fmt, vals, i + 1)

\* FormatTemplate::render_static_str: every token that names a supplied
\* placeholder is replaced by its value; any other token passes through.
render_static_str(fmt, vals) == render_from(fmt, vals, 1)

(***************************************************************************)
(* The remote player: a queue of tracks, a position in it, a play state,   *)
(* a volume and four mode flags.                                           *)
(***************************************************************************)
SongA == [title |-> Some("Y"), file |-> "y.mp3",
          artist |-> Some("X"), duration |-> Some(185)]
SongB == [title |-> None, file |-> "b.ogg",
          artist |-> None, duration |-> None]
Queue == << SongA, SongB >>
Positions == 0..Len(Queue)

\* Connection.currentSong() of a player: None when nothing is queued.
currentsong(p) == IF p.pos = 0 THEN None ELSE Some(p.queue[p.pos])

States == { "Play", "Pause", "Stop" }
FlagSets == { {} }
InitVolumes == { 98 }

\* Connection.status() of a player.
status(p) ==
    [ repeat  |-> "repeat" \in p.flags,
      random  |-> "random" \in p.flags,
      single  |-> "single" \in p.flags,
      consume |-> "consume" \in p.flags,
      state   |-> p.state,
      elapsed |-> p.elapsed,
      volume  |-> p.volume ]

\* Connection.previous() / next() / togglePause() / setVolume(v) on the player.
remote_prev(p) ==
    [p EXCEPT !.pos = IF @ = 0 THEN 0 ELSE Max(1, @ - 1)]
remote_next(p) ==
    [p EXCEPT !.pos = IF @ = 0 \/ @ = Len(p.queue) THEN @ ELSE @ + 1]
remote_toggle_pause(p) ==
    [p EXCEPT !.state = CASE @ = "Play" -> "Pause"
                          [] @ = "Pause" -> "Play"
                          [] OTHER -> @]
remote_volume(p, v) == [p EXCEPT !.volume = v]

\* The player with the track at position pos current (0: none).
Moved(p, pos) == [p EXCEPT !.pos = pos]

(***************************************************************************)
(* Field derivation of Mpd::update.                                        *)
(***************************************************************************)
\* format!("{}:{:02}", s / 60, s % 60)
Pad2(n) == IF n < 10 THEN "0" \o ToString(n) ELSE ToString(n)
\* Variant: durations of an hour or more are wrapped into hours.
format_duration_hours(s) ==
    IF s < 3600 THEN ToString(s \div 60) \o ":" \o Pad2(s % 60)
    ELSE ToString(s \div 3600) \o ":" \o Pad2((s \div 60) % 60)
             \o ":" \o Pad2(s % 60)

format_duration(s) == ToString(s \div 60) \o ":" \o Pad2(s % 60)

flag_repeat(st) == IF st.repeat THEN "R" ELSE ""
flag_random(st) == IF st.random THEN "Z" ELSE ""
flag_single(st) == IF st.single THEN "S" ELSE ""
flag_consume(st) == IF st.consume THEN "C" ELSE ""

title_of(song) ==
    IF IsSome(song)
    THEN IF IsSome(Unwrap(song).title) THEN Unwrap(Unwrap(song).title)
                                       ELSE Unwrap(song).file
    ELSE ""

\* Variant: a track without an Artist tag has an empty artist.
artist_of_blank(song) ==
    IF IsSome(song)
    THEN IF IsSome(Unwrap(song).artist) THEN Unwrap(Unwrap(song).artist)
                                        ELSE ""
    ELSE ""

artist_of(song) ==
    IF IsSome(song)
    THEN IF IsSome(Unwrap(song).artist) THEN Unwrap(Unwrap(song).artist)
                                        ELSE "unknown artist"
    ELSE ""

elapsed_of(st) ==
    IF IsSome(st.elapsed) THEN format_duration(Unwrap(st.elapsed)) ELSE ""

length_of(song) ==
    IF IsSome(song)
    THEN IF IsSome(Unwrap(song).duration)
         THEN format_duration(Unwrap(Unwrap(song).duration))
         ELSE ""
    ELSE ""

\* Variant: every state but Play reads "stopped".
playback_status_no_pause(st, elapsed, length) ==
    CASE st.state = "Play"  -> elapsed \o "/" \o length
      [] OTHER              -> "stopped"

playback_status(st, elapsed, length) ==
    CASE st.state = "Play"  -> elapsed \o "/" \o length
      [] st.state = "Pause" -> "paused"
      [] OTHER              -> "stopped"

\* The map handed to render_static_str: s1, s2, s3 are the answers of the
\* three currentsong() calls (title, artist, length).
format_values(st, s1, s2, s3) ==
    [ k \in { "{repeat}", "{random}", "{single}", "{consume}", "{artist}",
              "{title}", "{elapsed}", "{length}", "{playback_info}",
              "{volume}" } |->
        CASE k = "{repeat}"  -> flag_repeat(st)
          [] k = "{random}"  -> flag_random(st)
          [] k = "{single}"  -> flag_single(st)
          [] k = "{consume}" -> flag_consume(st)
          [] k = "{artist}"  -> artist_of(s2)
          [] k = "{title}"   -> title_of(s1)
          [] k = "{elapsed}" -> elapsed_of(st)
          [] k = "{length}"  -> length_of(s3)
          [] k = "{playback_info}" ->
                 playback_status(st, elapsed_of(st), length_of(s3))
          [] OTHER -> ToString(st.volume) ]

\* The text of a full render of one snapshot of the player.
full_render(fmt, p) ==
    render_static_str(fmt,
        format_values(status(p), currentsong(p), currentsong(p),
                      currentsong(p)))

(***************************************************************************)
(* State.  The fields of struct Mpd that change (text, mpd_conn) or are    *)
(* set from the configuration (format), the connection handles opened so   *)
(* far, the remote player, the handler invocation in progress and a record *)
(* of the last invocation.  A handler advances by one step per call it     *)
(* issues on the client library; between two steps the player and the      *)
(* network may change.                                                     *)
(***************************************************************************)
VARIABLES
    phase,      \* "unbuilt", "alive", "config_error" (new returned Err), "panicked"
    text,       \* Mpd.text: the text of the ButtonWidget
    mpd_conn,   \* Mpd.mpd_conn: the handle in the Cell (0 before construction)
    format,     \* Mpd.format
    conns,      \* handle -> "open" | "dead" (link lost) | "closed"
    reachable,  \* whether Client::connect to Mpd.ip succeeds
    player,     \* the remote player
    run,        \* the handler in progress: the call it issues next, its locals
    last,       \* the last invocation: which handler, what it returned and called
    scrolls     \* scroll events so far that changed the player's volume

vars == << phase, text, mpd_conn, format, conns, reachable, player, run, last,
          scrolls >>

\* Mpd.id (pseudo_uuid()) and the names an incoming event may carry.
id == "mpd-1"
EventNames == { Some(id), Some("other"), None }
Buttons == { "Left", "Middle", "Right", "WheelUp", "WheelDown", "Other" }

\* The events delivered: every button, on this widget, on another widget and
\* without a name.
Events == [name : EventNames, button : Buttons]
is_scroll(ev) == ev.button \in { "WheelUp", "WheelDown" }

\* One call issued on the client library: which, on which handle, with which
\* value (the volume a set-volume sends or a status answers, else 0), and
\* whether it succeeded.
Call(c, h, a, ok) == [call |-> c, conn |-> h, arg |-> a, ok |-> ok]

NoEvent == [name |-> None, button |-> "Other"]

\* The position of a handler: pc names the call it issues next ("idle": no
\* handler runs), st is the answer of the status probe, s1 and s2 the answers
\* of the first two currentsong queries, vol the volume a scroll read.
Idle == [pc |-> "idle", st |-> None, s1 |-> None, s2 |-> None, vol |-> 0]
At(pc) == [Idle EXCEPT !.pc = pc]

\* The handler pass before an invocation, when nothing changed during it or
\* since: which handler it was and how its render pass ended.
NoPrior == [op |-> "none", outcome |-> "none"]
Prior(l) ==
    IF l.op \in { "update", "click" } /\ ~l.changed
    THEN [op |-> l.op, outcome |-> l.outcome]
    ELSE NoPrior

\* op is "new", "update", "click", or "remote" after a step of the player or
\* the network while no handler runs; event is what click read of its event;
\* ret is what the handler returned
\* ("running" until it does); outcome is how its render pass ended; calls are
\* the calls issued so far; changed says that the player or the link changed
\* while the handler ran; after is the pass before it.
Last(op, ev, ret, outcome, calls, changed, after) ==
    [op |-> op, event |-> ev, ret |-> ret, outcome |-> outcome,
     calls |-> calls, changed |-> changed, after |-> after]
Running(op, ev, calls, changed, after) ==
    Last(op, ev, "running", "running", calls, changed, after)
RemoteStep == Last("remote", NoEvent, "none", "none", << >>, TRUE, NoPrior)

\* The record of the invocation after a step of the surroundings.
Disturb(l) ==
    IF run.pc = "idle" THEN RemoteStep
    ELSE [l EXCEPT !.changed = TRUE, !.after = NoPrior]

(***************************************************************************)
(* Mpd::update.                                                            *)
(***************************************************************************)
\* conn.status() succeeds on a handle whose link is up.
probe_ok(cs, c) == cs[c] = "open"

\* Ok(conn) branch of the reconnect: the text is not touched.
reconnected_text(old) == old

\* Variants of the Err(error) branch: the text shows the connect error, or
\* the placeholder is appended to the text instead of replacing it.
reconnecting_text_error(old) == "Connection refused (os error 111)"
reconnecting_text_append(old) == old \o "reconnecting..."

\* Err(error) branch of the reconnect: self.text.set_text("reconnecting...").
reconnecting_text(old) == "reconnecting..."

\* Variant: the new client is dropped and the Cell keeps the old handle.
reconnected_conn_kept(old, new) == old

\* The handle held after a successful Client::connect: self.mpd_conn.set(conn).
reconnected_conn(old, new) == new

\* Variant: a failed connect is tried again in the same cycle.
connect_calls_retry(ok, new) ==
    IF ok THEN << Call("connect", new, 0, TRUE) >>
    ELSE << Call("connect", 0, 0, FALSE), Call("connect", 0, 0, FALSE) >>

\* The one Client::connect(self.ip.as_str()) of an update.
connect_calls(ok, new) ==
    << Call("connect", IF ok THEN new ELSE 0, 0, ok) >>

\* What update returns to the scheduler, and what click makes of it.
update_ret(op) == IF op = "update" THEN "Ok(Some(interval))" ELSE "Ok(())"

\* currentsong().unwrap(): a failed query panics.
currentsong_unwrap_panics(failed) == failed

\* The handler unwinds: the widget's thread is gone.
Panic(outcome, calls) ==
    /\ phase' = "panicked"
    /\ run' = Idle
    /\ last' = [last EXCEPT !.ret = "panic", !.outcome = outcome,
                            !.calls = calls]
    /\ UNCHANGED << text, mpd_conn, format, conns, reachable, player, scrolls >>

\* let status_pre = conn.status(), the first call of update, issued by the
\* handler op after the calls pre; on Err the handle is closed next.
StatusProbe(op, ev, pre, changed, after) ==
    LET c  == mpd_conn
        st == status(player)
    IN  /\ IF probe_ok(conns, c)
           THEN /\ run' = [At("title") EXCEPT !.st = Some(st)]
                /\ last' = Running(op, ev,
                               Append(pre, Call("status", c, st.volume, TRUE)),
                               changed, after)
                /\ UNCHANGED conns
           ELSE /\ run' = At("close")
                /\ last' = Running(op, ev,
                               Append(pre, Call("status", c, 0, FALSE)),
                               changed, after)
        /\ UNCHANGED << phase, text, mpd_conn, format, conns, reachable,
                        player, scrolls >>

\* A timer tick: the scheduler calls update, which probes the connection.
Update ==
    /\ phase = "alive"
    /\ run.pc = "idle"
    /\ StatusProbe("update", NoEvent, << >>, FALSE, Prior(last))

\* conn.close() on the handle whose probe failed; its result is dropped.
Close ==
    /\ phase = "alive"
    /\ run.pc = "close"
    /\ conns' = [conns EXCEPT ![mpd_conn] = "closed"]
    /\ run' = At("connect")
    /\ last' = [last EXCEPT !.calls =
                   Append(@, Call("close", mpd_conn, 0, FALSE))]
    /\ UNCHANGED << phase, text, mpd_conn, format, reachable, player,
                    scrolls >>

\* Client::connect(self.ip.as_str()) after the close, and the return.
\* (A connect that would open more than MaxConn handles is not taken.)
Connect ==
    /\ phase = "alive"
    /\ run.pc = "connect"
    /\ reachable => Len(conns) < MaxConn
    /\ LET c   == mpd_conn
           new == Len(conns) + 1
       IN  IF reachable
           THEN /\ conns' = Append(conns, "open")
                /\ mpd_conn' = reconnected_conn(c, new)
                /\ text' = reconnected_text(text)
                /\ last' = [last EXCEPT
                               !.ret = update_ret(last.op),
                               !.outcome = "reconnected",
                               !.calls = @ \o connect_calls(TRUE, new)]
           ELSE /\ text' = reconnecting_text(text)
                /\ last' = [last EXCEPT
                               !.ret = update_ret(last.op),
                               !.outcome = "reconnect_failed",
                               !.calls = @ \o connect_calls(FALSE, new)]
                /\ UNCHANGED << conns, mpd_conn >>
    /\ run' = Idle
    /\ UNCHANGED << phase, format, reachable, player, scrolls >>

\* One conn.currentsong().unwrap() at pc: a panic, or the handler goes on as
\* next, which holds the answer.
Query(pc, next) ==
    /\ phase = "alive"
    /\ run.pc = pc
    /\ LET c     == mpd_conn
           ok    == conns[c] = "open"
           calls == Append(last.calls, Call("currentsong", c, 0, ok))
       IN  IF currentsong_unwrap_panics(~ok)
           THEN Panic("panic", calls)
           ELSE /\ run' = next
                /\ last' = [last EXCEPT !.calls = calls]
                /\ UNCHANGED << phase, text, mpd_conn, format, conns,
                                reachable, player, scrolls >>

\* let title = match conn.currentsong().unwrap() ..
QueryTitle ==
    Query("title", [run EXCEPT !.pc = "artist",
                               !.s1 = currentsong(player)])

\* let artist = match conn.currentsong().unwrap() ..
QueryArtist ==
    Query("artist", [run EXCEPT !.pc = "length",
                                !.s2 = currentsong(player)])

\* let length = match conn.currentsong().unwrap() .., the substitution of the
\* fields into the template, set_text and the return.
QueryLength ==
    /\ phase = "alive"
    /\ run.pc = "length"
    /\ LET c     == mpd_conn
           ok    == conns[c] = "open"
           calls == Append(last.calls, Call("currentsong", c, 0, ok))
       IN  IF currentsong_unwrap_panics(~ok)
           THEN Panic("panic", calls)
           ELSE /\ text' = render_static_str(format,
                               format_values(Unwrap(run.st), run.s1, run.s2,
                                             currentsong(player)))
                /\ run' = Idle
                /\ last' = [last EXCEPT !.ret = update_ret(last.op),
                                        !.outcome = "rendered",
                                        !.calls = calls]
                /\ UNCHANGED << phase, mpd_conn, format, conns, reachable,
                                player, scrolls >>

(***************************************************************************)
(* Mpd::click.                                                             *)
(***************************************************************************)
\* cmp::min(100, vol + 5) and cmp::max(0, vol - 5); vol is an i8 and the
\* player's volume is at most 100, so vol + 5 does not overflow.
volume_up_unclamped(vol) == vol + 5
volume_up(vol) == Min(100, vol + 5)
volume_down(vol) == Max(0, vol - 5)

\* if let Some(ref name) = event.name, and name.as_str() == self.id
event_matches(ev) == IsSome(ev.name) /\ Unwrap(ev.name) = id

\* What click reads of an event: its name, and its button when the name is
\* the widget's id.
event_read(ev) ==
    [name |-> ev.name,
     button |-> IF event_matches(ev) THEN ev.button ELSE NoEvent.button]

\* Variant: the arms of Left and Right are exchanged.
button_command_swapped(button) ==
    CASE button = "Left"   -> "next"
      [] button = "Middle" -> "toggle_pause"
      [] button = "Right"  -> "prev"
      [] button \in { "WheelUp", "WheelDown" } -> "volume"
      [] OTHER -> "none"

\* The command of each arm of match event.button.
button_command(button) ==
    CASE button = "Left"   -> "prev"
      [] button = "Middle" -> "toggle_pause"
      [] button = "Right"  -> "next"
      [] button \in { "WheelUp", "WheelDown" } -> "volume"
      [] OTHER -> "none"

\* What the player does on a command it accepts.
remote_command(cmd, p) ==
    CASE cmd = "prev" -> remote_prev(p)
      [] cmd = "toggle_pause" -> remote_toggle_pause(p)
      [] cmd = "next" -> remote_next(p)

\* Variant: a failed command closes the connection.
after_failed_command_closed(cs, c) == [cs EXCEPT ![c] = "closed"]

\* What a failed command leaves of the handles: the ? returns at once.
after_failed_command(cs, c) == cs

\* .block_error(..)? on a failed command: click returns the error, and the
\* trailing self.update() is not reached.
CommandFails(begun, calls) ==
    /\ conns' = after_failed_command(conns, mpd_conn)
    /\ run' = Idle
    /\ last' = [begun EXCEPT !.ret = "Err", !.outcome = "no_update",
                             !.calls = calls]
    /\ UNCHANGED << phase, text, mpd_conn, format, reachable, player,
                    scrolls >>

\* An input event among evs is delivered: the scheduler calls click, which
\* runs up to the answer of its first call: the command of the button, the
\* status query of a scroll, or the status probe of the trailing update when
\* the event has no command.  A command succeeds when the link is up and the
\* player accepts it.
ClickOn(evs) ==
    /\ phase = "alive"
    /\ run.pc = "idle"
    /\ \E ev \in evs :
          LET c     == mpd_conn
              up    == conns[c] = "open"
              cmd   == IF event_matches(ev) THEN button_command(ev.button)
                                            ELSE "none"
              begun == Running("click", event_read(ev), << >>, FALSE,
                               Prior(last))
          IN  CASE cmd \in { "prev", "toggle_pause", "next" } ->
                     \E accepted \in BOOLEAN :
                        IF up /\ accepted
                        THEN /\ player' = remote_command(cmd, player)
                             /\ run' = At("probe")
                             /\ last' = [begun EXCEPT !.calls =
                                            << Call(cmd, c, 0, TRUE) >>]
                             /\ UNCHANGED << phase, text, mpd_conn, format,
                                             conns, reachable, scrolls >>
                        ELSE CommandFails(begun,
                                          << Call(cmd, c, 0, FALSE) >>)
                [] cmd = "volume" ->
                     /\ scrolls < MaxScroll
                     /\ IF up
                        THEN /\ run' = [At("volume") EXCEPT
                                           !.vol = status(player).volume]
                             /\ last' = [begun EXCEPT !.calls =
                                            << Call("status", c,
                                                    status(player).volume,
                                                    TRUE) >>]
                             /\ phase' = phase
                        ELSE /\ run' = Idle
                             /\ last' = [begun EXCEPT
                                            !.ret = "panic",
                                            !.outcome = "no_update",
                                            !.calls =
                                               << Call("status", c, 0,
                                                       FALSE) >>]
                             /\ phase' = "panicked"
                     /\ UNCHANGED << text, mpd_conn, format, conns, reachable,
                                     player, scrolls >>
                [] OTHER ->
                     StatusProbe("click", event_read(ev), << >>, FALSE,
                                 Prior(last))

Click == ClickOn(Events)

\* conn.volume(cmp::min(100, vol + 5)) or conn.volume(cmp::max(0, vol - 5))
\* of a scroll, on the volume its status query answered.
SetVolume ==
    /\ phase = "alive"
    /\ run.pc = "volume"
    /\ LET c  == mpd_conn
           v  == IF last.event.button = "WheelUp" THEN volume_up(run.vol)
                                                  ELSE volume_down(run.vol)
       IN  \E accepted \in BOOLEAN :
              IF conns[c] = "open" /\ accepted
              THEN /\ player' = remote_volume(player, v)
                   /\ scrolls' = IF v # player.volume THEN scrolls + 1
                                                      ELSE scrolls
                   /\ run' = At("probe")
                   /\ last' = [last EXCEPT !.calls =
                                  Append(@, Call("volume", c, v, TRUE))]
                   /\ UNCHANGED << phase, text, mpd_conn, format, conns,
                                   reachable >>
              ELSE CommandFails(last, Append(last.calls,
                                             Call("volume", c, v, FALSE)))

\* self.update() at the end of click: its status probe.
Probe ==
    /\ phase = "alive"
    /\ run.pc = "probe"
    /\ StatusProbe("click", last.event, last.calls, last.changed, last.after)

(***************************************************************************)
(* Mpd::new.                                                               *)
(***************************************************************************)
\* ButtonWidget::new(..).with_text("Mpd")
initial_text == "Mpd"

\* Client::connect(&block_config.ip).unwrap(): a failed connect panics.
connect_unwrap(ok) == IF ok THEN "connected" ELSE "panic"

(***************************************************************************)
(* The state machine.                                                      *)
(***************************************************************************)
\* The player at the start: 65 s into its track unless stopped.
ElapsedIn(state) == IF state = "Stop" THEN None ELSE Some(65)
PlayerOf(state, pos, volume, flags) ==
    [ state |-> state, pos |-> pos, volume |-> volume, flags |-> flags,
      elapsed |-> ElapsedIn(state), queue |-> Queue ]
Players ==
    { PlayerOf(s, q, v, f) :
        s \in States, q \in Positions, v \in InitVolumes, f \in FlagSets }

Init ==
    /\ phase = "unbuilt"
    /\ text = ""
    /\ mpd_conn = 0
    /\ format = default_format
    /\ conns = << >>
    /\ reachable \in BOOLEAN
    /\ player \in Players
    /\ run = Idle
    /\ last = Last("none", NoEvent, "none", "none", << >>, FALSE, NoPrior)
    /\ scrolls = 0

\* Mpd::new(block_config, ..) with block_config.format = fmt.  The fields are
\* evaluated in the order written: the connect precedes the template parse.
New(fmt) ==
    /\ phase = "unbuilt"
    /\ LET c == connect_unwrap(reachable)
       IN  \/ /\ c = "panic"
              /\ phase' = "panicked"
              /\ last' = Last("new", NoEvent, "panic", "none",
                              << Call("connect", 0, 0, FALSE) >>, FALSE,
                              NoPrior)
              /\ UNCHANGED << text, mpd_conn, format, conns >>
           \/ /\ c = "connected"
              /\ ~from_string_ok(fmt)
              /\ phase' = "config_error"
              /\ conns' = << "closed" >>
              /\ last' = Last("new", NoEvent, "Err", "none",
                              << Call("connect", 1, 0, TRUE) >>, FALSE,
                              NoPrior)
              /\ UNCHANGED << text, mpd_conn, format >>
           \/ /\ c = "connected"
              /\ from_string_ok(fmt)
              /\ phase' = "alive"
              /\ text' = initial_text
              /\ conns' = << "open" >>
              /\ mpd_conn' = 1
              /\ format' = fmt
              /\ last' = Last("new", NoEvent, "Ok", "none",
                              << Call("connect", 1, 0, TRUE) >>, FALSE,
                              NoPrior)
    /\ UNCHANGED << reachable, player, run, scrolls >>

\* The player stops answering: open links are lost, connects fail.
RemoteDown ==
    /\ phase = "alive"
    /\ reachable
    /\ reachable' = FALSE
    /\ conns' = [h \in DOMAIN conns |->
                    IF conns[h] = "open" THEN "dead" ELSE conns[h]]
    /\ last' = Disturb(last)
    /\ UNCHANGED << phase, text, mpd_conn, format, player, run, scrolls >>

\* The player answers again; links lost stay lost.
RemoteUp ==
    /\ phase = "alive"
    /\ ~reachable
    /\ reachable' = TRUE
    /\ last' = Disturb(last)
    /\ UNCHANGED << phase, text, mpd_conn, format, conns, player, run,
                    scrolls >>

\* The link of the widget's handle is lost (idle timeout, network) while the
\* player stays reachable.
ConnDrop ==
    /\ phase = "alive"
    /\ conns[mpd_conn] = "open"
    /\ conns' = [conns EXCEPT ![mpd_conn] = "dead"]
    /\ last' = Disturb(last)
    /\ UNCHANGED << phase, text, mpd_conn, format, reachable, player, run,
                    scrolls >>

\* Another client changes or clears the current track.
RemoteChange ==
    /\ phase = "alive"
    /\ reachable
    /\ \E p \in Positions \ { player.pos } : player' = Moved(player, p)
    /\ last' = Disturb(last)
    /\ UNCHANGED << phase, text, mpd_conn, format, conns, reachable, run,
                    scrolls >>

Next ==
    \/ \E fmt \in Formats : New(fmt)
    \/ Update
    \/ Click
    \/ Probe
    \/ Close
    \/ Connect
    \/ QueryTitle
    \/ QueryArtist
    \/ QueryLength
    \/ SetVolume
    \/ RemoteDown
    \/ RemoteUp
    \/ ConnDrop
    \/ RemoteChange

Spec == Init /\ [][Next]_vars

(***************************************************************************)
(* Scroll events from every volume of the player: the widget is built on a *)
(* reachable player and receives scroll events while the link may drop.    *)
(***************************************************************************)
InitVolume ==
    /\ phase = "unbuilt"
    /\ text = ""
    /\ mpd_conn = 0
    /\ format = default_format
    /\ conns = << >>
    /\ reachable = TRUE
    /\ player \in { PlayerOf("Play", 1, v, f) :
                       v \in 0..100, f \in FlagSets }
    /\ run = Idle
    /\ last = Last("none", NoEvent, "none", "none", << >>, FALSE, NoPrior)
    /\ scrolls = 0

Scroll == ClickOn({ e \in Events : is_scroll(e) })

NextVolume ==
    \/ \E fmt \in Formats : New(fmt)
    \/ Scroll
    \/ SetVolume
    \/ Probe
    \/ Close
    \/ Connect
    \/ QueryTitle
    \/ QueryArtist
    \/ QueryLength
    \/ ConnDrop

SpecVolume == InitVolume /\ [][NextVolume]_vars

(***************************************************************************)
(* The widget under its scheduler: the timer of update_interval fires      *)
(* again and again and the scheduler serves it whenever no handler runs,   *)
(* so an update that can start again and again does start; a handler that  *)
(* has been called runs on to its return.  The link fails only while a     *)
(* further connection can still be opened, so that a reconnect is never    *)
(* kept from running by the bound on handles.                              *)
(***************************************************************************)
RemoteDownLive == Len(conns) < MaxConn /\ RemoteDown
ConnDropLive == Len(conns) < MaxConn /\ ConnDrop

\* The steps of a handler that has been called.
HandlerRuns ==
    \/ Probe
    \/ Close
    \/ Connect
    \/ QueryTitle
    \/ QueryArtist
    \/ QueryLength
    \/ SetVolume

NextLive ==
    \/ \E fmt \in Formats : New(fmt)
    \/ Update
    \/ Click
    \/ HandlerRuns
    \/ RemoteDownLive
    \/ RemoteUp
    \/ ConnDropLive
    \/ RemoteChange

SpecLive ==
    Init /\ [][NextLive]_vars /\ SF_vars(Update) /\ WF_vars(HandlerRuns)

(***************************************************************************)
(* Updates of a built widget under the default template and every template *)
(* of one placeholder, on a player whose status and first track range over *)
(* present and absent data, over the mode flags and over every whole-      *)
(* second elapsed time and track duration up to MaxSeconds.  The current   *)
(* track may change and the player may go down between any two calls of an *)
(* update.                                                                 *)
(***************************************************************************)
MaxSeconds == 3700

\* Templates of one key each, and the default.
FieldFormats ==
    { << "{title}" >>, << "{artist}" >>, << "{elapsed}" >>, << "{length}" >>,
      << "{playback_info}" >> }
RenderFormats == FieldFormats \cup { default_format }

AllFlags == SUBSET { "repeat", "random", "single", "consume" }
Tracks(durations) ==
    [ title : { None, Some("Y") }, file : { "y.mp3" },
      artist : { None, Some("X") }, duration : durations ]
Seconds == { Some(d) : d \in 0..MaxSeconds }

\* A player at volume 98 whose queue is song and SongB, el into its track.
RenderPlayer(state, pos, flags, el, song) ==
    [ state |-> state, pos |-> pos, volume |-> 98, flags |-> flags,
      elapsed |-> el, queue |-> << song, SongB >> ]

\* Every combination of present and absent data under every template, every
\* combination of flags under the default template, and every elapsed time
\* and track duration under the template that shows it.
RenderInputs ==
    { [ fmt |-> f, player |-> RenderPlayer(s, q, {}, e, t) ] :
        f \in RenderFormats, s \in States, q \in { 0, 1 },
        e \in { None, Some(65) }, t \in Tracks({ None, Some(185) }) }
    \cup { [ fmt |-> default_format,
             player |-> RenderPlayer("Play", 1, fl, Some(65), SongA) ] :
             fl \in AllFlags }
    \cup { [ fmt |-> f,
             player |-> RenderPlayer("Play", 1, {}, d,
                                     [SongA EXCEPT !.duration = d]) ] :
             f \in { << "{elapsed}" >>, << "{length}" >> }, d \in Seconds }

InitRender ==
    /\ phase = "alive"
    /\ text = initial_text
    /\ mpd_conn = 1
    /\ conns = << "open" >>
    /\ reachable = TRUE
    /\ \E i \in RenderInputs :
          /\ format = i.fmt
          /\ player = i.player
    /\ run = Idle
    /\ last = Last("new", NoEvent, "Ok", "none",
                   << Call("connect", 1, 0, TRUE) >>, FALSE, NoPrior)
    /\ scrolls = 0

NextRender ==
    \/ Update
    \/ Close
    \/ Connect
    \/ QueryTitle
    \/ QueryArtist
    \/ QueryLength
    \/ RemoteDown
    \/ RemoteChange

SpecRender == InitRender /\ [][NextRender]_vars

(***************************************************************************)
(* Properties.                                                             *)
(***************************************************************************)
placeholder == "reconnecting..."

\* No handler is running: the last invocation has returned or panicked.
Completed == run.pc = "idle"

\* The last invocation is an update whose status probe failed.
ProbeFailed ==
    /\ last.op = "update"
    /\ last.calls[1].call = "status"
    /\ ~last.calls[1].ok

Called(name) == \E k \in 1..Len(last.calls) : last.calls[k].call = name

\* C1: whenever the status probe at the start of an update fails, that update
\* leaves displayText at the reconnecting placeholder and queries neither the
\* current song nor anything else of the player, whether the reconnect attempt
\* of that update succeeded or failed.
C1_ProbeFailureShowsPlaceholder ==
    (Completed /\ ProbeFailed) => text = placeholder /\ ~Called("currentsong")

\* C2: for every event whose name is the widget's id, click runs a render pass
\* after issuing the mapped command, whether that command succeeded or failed.
C2_RenderFollowsMatchingClick ==
    (Completed /\ last.op = "click" /\ event_matches(last.event))
        => last.outcome # "no_update"

\* C3: a click whose event names another widget, or carries no name, issues no
\* call on the connection and leaves displayText and the connection handle as
\* they were.
C3_ForeignEventChangesNothing ==
    [][ (last'.op = "click" /\ ~event_matches(last'.event))
            => /\ last'.calls = << >>
               /\ text' = text
               /\ mpd_conn' = mpd_conn ]_vars

\* C4: update always returns a next-wake duration and never crashes the
\* widget, whatever the remote calls it makes answer.
C4_UpdateAlwaysReturns ==
    (Completed /\ last.op = "update") => last.ret = "Ok(Some(interval))" /\ phase = "alive"

\* The calls of the button match of the last click (before its render pass):
\* one command, or the volume re-query and the set-volume of a scroll.
CommandCalls ==
    IF ~(last.op = "click" /\ event_matches(last.event)) THEN << >>
    ELSE IF is_scroll(last.event)
         THEN SubSeq(last.calls, 1,
                     IF last.calls[1].ok THEN Min(2, Len(last.calls)) ELSE 1)
         ELSE IF last.event.button = "Other" THEN << >>
         ELSE SubSeq(last.calls, 1, 1)

CommandFailed == \E k \in 1..Len(CommandCalls) : ~CommandCalls[k].ok

\* C5: a failure of any remote call click makes for a matching event (previous,
\* next, toggle-pause, set-volume, the volume re-query of a scroll) is returned
\* as an error result and leaves the widget alive.
C5_CommandFailureIsAnError ==
    CommandFailed => last.ret = "Err" /\ phase = "alive"

\* The pairs of a template and a text a full render of it can produce: the
\* substitution of one status and the answers of the three currentsong
\* queries of one cycle.  (A template without {volume} renders the same at
\* every volume.)
Renders ==
    UNION {
        { << fmt, render_static_str(fmt,
                      format_values(status(p), currentsong(Moved(p, a)),
                                    currentsong(Moved(p, b)),
                                    currentsong(Moved(p, c)))) >> :
            p \in { PlayerOf(s, 0, v, f) :
                      s \in States, f \in FlagSets,
                      v \in IF \E i \in 1..Len(fmt) : fmt[i] = "{volume}"
                            THEN 0..100 ELSE { 0 } },
            a \in Positions, b \in Positions, c \in Positions } :
        fmt \in { f \in Formats : from_string_ok(f) } }
IsRender(fmt, t) == << fmt, t >> \in Renders

\* C6 as stated: the text of a constructed widget is always a full render of
\* the template or the reconnecting placeholder.
C6_TextIsRenderOrPlaceholder ==
    phase = "alive" => text = placeholder \/ IsRender(format, text)

\* C6, amended: the text of a constructed widget is the construction label
\* "Mpd", a full render of the template, or the reconnecting placeholder.
C6_TextIsLabelRenderOrPlaceholder ==
    phase = "alive"
        => \/ text = initial_text
           \/ text = placeholder
           \/ IsRender(format, text)

C6_Witness ==
    /\ phase = "alive"
    /\ last.op = "update"
    /\ last.outcome = "rendered"
    /\ mpd_conn > 1
    /\ IsRender(format, text)
    /\ text \notin { placeholder, initial_text }

\* C7: an update that follows a successful reconnect, with the player still
\* reachable and nothing changed since, probes the new connection
\* successfully and renders in full: all its calls go to the handle the
\* widget now holds, all succeed, and the text is the render of the player's
\* state.
C7_RenderAfterReconnect ==
    (Completed /\ last.op = "update" /\ ~last.changed
     /\ last.after.outcome = "reconnected")
        => /\ last.outcome = "rendered"
           /\ conns[mpd_conn] = "open"
           /\ \A k \in 1..Len(last.calls) :
                 last.calls[k].conn = mpd_conn /\ last.calls[k].ok
           /\ text = full_render(format, player)

C7_Witness ==
    /\ Completed
    /\ last.op = "update"
    /\ ~last.changed
    /\ last.after.outcome = "reconnected"
    /\ last.outcome = "rendered"
    /\ mpd_conn > 1
    /\ conns[mpd_conn - 1] = "closed"
    /\ \A k \in 1..Len(last.calls) : last.calls[k].conn = mpd_conn
    /\ text = full_render(format, player)

\* The step in which an update returns, when nothing changed while it ran
\* and the pass before it was an update during and after which nothing
\* changed either.
SecondUpdateReturns ==
    /\ run.pc # "idle"
    /\ run'.pc = "idle"
    /\ last'.op = "update"
    /\ ~last'.changed
    /\ last'.after.op = "update"

\* C8 as stated: the second of two consecutive updates, with no change of the
\* player or the link during or between them, leaves the text as the first
\* left it.
C8_UpdateIdempotent ==
    [][ SecondUpdateReturns => text' = text ]_vars

\* C8, amended: the same, when the first update rendered in full or failed to
\* reconnect (it did not replace the connection).
C8_UpdateIdempotentUnlessReconnected ==
    [][ (SecondUpdateReturns
         /\ last'.after.outcome \in { "rendered", "reconnect_failed" })
            => text' = text ]_vars

C8_Witness ==
    /\ Completed
    /\ last.op = "update"
    /\ ~last.changed
    /\ last.after = [op |-> "update", outcome |-> "reconnect_failed"]
    /\ last.outcome = "reconnect_failed"
    /\ text = placeholder

\* C9: every volume a scroll event sends to set-volume lies in 0..100 and is
\* min(100, v + 5) for a scroll up and max(0, v - 5) for a scroll down, where v
\* is the volume the status query of that same event answered.
C9_ScrollVolumeClamped ==
    \A k \in 1..Len(last.calls) :
        last.calls[k].call = "volume"
            => /\ last.calls[k].arg \in 0..100
               /\ k > 1
               /\ last.calls[k - 1].call = "status"
               /\ last.calls[k - 1].ok
               /\ LET v == last.calls[k - 1].arg
                  IN  last.calls[k].arg =
                        IF last.event.button = "WheelUp"
                        THEN (IF v + 5 > 100 THEN 100 ELSE v + 5)
                        ELSE (IF v - 5 < 0 THEN 0 ELSE v - 5)

C9_Witness ==
    /\ last.op = "click"
    /\ last.event.button = "WheelUp"
    /\ Len(last.calls) >= 2
    /\ last.calls[1] = Call("status", mpd_conn, 98, TRUE)
    /\ last.calls[2] = Call("volume", mpd_conn, 100, TRUE)
    /\ player.volume = 100

\* C10: construction returns an error result, without crashing, when the
\* initial connection cannot be established.
C10_ConnectFailureIsError ==
    (last.op = "new" /\ ~last.calls[1].ok)
        => last.ret = "Err" /\ phase = "config_error"

\* The calls of a click that are commands of the player, in the order issued.
Commands == { "prev", "toggle_pause", "next", "volume" }
IssuedCommands == SelectSeq(last.calls, LAMBDA c : c.call \in Commands)
RestOfCalls ==
    SubSeq(last.calls, Len(CommandCalls) + 1, Len(last.calls))

\* C11: for a matching event the button alone decides the command: Left
\* issues previous, Middle toggle-pause, Right next, a scroll one status query
\* followed by one set-volume of a value derived from that very answer, and
\* any other button nothing.  These calls come first, on the held handle, and
\* nothing else of the event is a command: what follows is the render pass
\* (a scroll whose status query failed stops before its set-volume).
C11_ButtonDecidesCommand ==
    (Completed /\ last.op = "click" /\ event_matches(last.event)) =>
        LET b == last.event.button
            names == [ k \in 1..Len(CommandCalls) |-> CommandCalls[k].call ]
        IN  /\ b = "Left"   => names = << "prev" >>
            /\ b = "Middle" => names = << "toggle_pause" >>
            /\ b = "Right"  => names = << "next" >>
            /\ is_scroll(last.event) =>
                  \/ names = << "status" >> /\ ~CommandCalls[1].ok
                  \/ /\ names = << "status", "volume" >>
                     /\ CommandCalls[1].ok
                     /\ CommandCalls[2].arg \in
                           { Min(100, CommandCalls[1].arg + 5),
                             Max(0, CommandCalls[1].arg - 5) }
            /\ b = "Other"  => names = << >>
            /\ Len(IssuedCommands) = (IF b = "Other" THEN 0
                                      ELSE IF is_scroll(last.event)
                                           THEN Len(CommandCalls) - 1
                                           ELSE 1)
            /\ \A k \in 1..Len(RestOfCalls) :
                  RestOfCalls[k].call \notin Commands
            /\ RestOfCalls # << >> => RestOfCalls[1].call = "status"

C11_Witness ==
    /\ Completed
    /\ last.op = "click"
    /\ event_matches(last.event)
    /\ last.event.button = "Right"
    /\ last.calls[1] = Call("next", mpd_conn, 0, TRUE)
    /\ last.outcome = "rendered"
    /\ Len(last.calls) > 1

\* An update has returned having rendered, and neither the player nor the
\* link has changed since it was called: the answers it fetched are those of
\* player.
Rendered ==
    /\ Completed
    /\ last.op = "update"
    /\ last.outcome = "rendered"
    /\ ~last.changed

\* C12: playback_info is the rendered elapsed time, a slash and the rendered
\* length while the player is Playing, "paused" while it is Paused and
\* "stopped" in every other state; under the default template a Playing player
\* 65 s into a 185 s track of artist X and title Y, no flag set, reads
\* "X - Y [1:05/3:05]".
C12_PlaybackInfo ==
    Rendered =>
        /\ format = << "{playback_info}" >> =>
              text = CASE player.state = "Play" ->
                              elapsed_of(status(player)) \o "/"
                                  \o length_of(currentsong(player))
                       [] player.state = "Pause" -> "paused"
                       [] OTHER -> "stopped"
        /\ ( /\ format = default_format
             /\ player.state = "Play"
             /\ player.elapsed = Some(65)
             /\ player.flags = {}
             /\ currentsong(player) = Some(SongA) )
              => text = "X - Y [1:05/3:05]"

C12_Witness ==
    /\ Rendered
    /\ format = default_format
    /\ player.state = "Play"
    /\ player.elapsed = Some(65)
    /\ player.flags = {}
    /\ currentsong(player) = Some(SongA)
    /\ text = "X - Y [1:05/3:05]"

\* C13: absent data never fails a render: an update whose calls all
\* succeeded has rendered and returned, whatever the answers lack.  The
\* render reads as follows: without a current track the title, the artist
\* and the length are empty; a track without a title reads its file
\* identifier; a track without an Artist tag reads "unknown artist"; an
\* absent elapsed time or an absent duration reads as the empty string.
C13_MissingDataFallbacks ==
    LET song == currentsong(player)
    IN  /\ ( /\ Completed
             /\ last.op = "update"
             /\ \A k \in 1..Len(last.calls) : last.calls[k].ok )
              => last.outcome = "rendered" /\ last.ret = "Ok(Some(interval))"
        /\ Rendered =>
              /\ ( format \in { << "{title}" >>, << "{artist}" >>,
                                << "{length}" >> }
                   /\ song = None ) => text = ""
              /\ ( format = << "{title}" >> /\ IsSome(song)
                   /\ Unwrap(song).title = None )
                    => text = Unwrap(song).file
              /\ ( format = << "{artist}" >> /\ IsSome(song)
                   /\ Unwrap(song).artist = None )
                    => text = "unknown artist"
              /\ ( format = << "{elapsed}" >> /\ player.elapsed = None )
                    => text = ""
              /\ ( format = << "{length}" >> /\ IsSome(song)
                   /\ Unwrap(song).duration = None ) => text = ""

C13_Witness ==
    /\ Rendered
    /\ format = << "{artist}" >>
    /\ IsSome(currentsong(player))
    /\ Unwrap(currentsong(player)).artist = None
    /\ Unwrap(currentsong(player)).title = None
    /\ player.elapsed = None
    /\ text = "unknown artist"

\* C14: a duration of d whole seconds, d >= 0, reads as the decimal of
\* d div 60, a colon, and d mod 60 padded to two digits: 125 is "2:05", 59 is
\* "0:59", 3600 is "60:00"; the minutes are never wrapped into hours.
C14_DurationFormat ==
    LET song == currentsong(player)
        Expected(d) ==
            ToString(d \div 60) \o ":"
                \o (IF d % 60 < 10 THEN "0" ELSE "") \o ToString(d % 60)
        Shown(d) ==
            /\ text = Expected(d)
            /\ d = 125 => text = "2:05"
            /\ d = 59 => text = "0:59"
            /\ d = 3600 => text = "60:00"
    IN  Rendered =>
            /\ ( format = << "{elapsed}" >> /\ IsSome(player.elapsed) )
                  => Shown(Unwrap(player.elapsed))
            /\ ( format = << "{length}" >> /\ IsSome(song)
                 /\ IsSome(Unwrap(song).duration) )
                  => Shown(Unwrap(Unwrap(song).duration))

C14_Witness ==
    /\ Rendered
    /\ format = << "{length}" >>
    /\ IsSome(currentsong(player))
    /\ Unwrap(currentsong(player)).duration = Some(3600)
    /\ text = "60:00"

\* The handlers of the widget, and the successful connects among the calls
\* of the last invocation issued after its k-th call.
HandlerStep == last.op \in { "update", "click" }
ConnectsAfter(k) ==
    Cardinality({ j \in (k + 1)..Len(last.calls) :
                    last.calls[j].call = "connect" /\ last.calls[j].ok })

\* C15: a successful reconnect replaces the held handle by the new connection
\* in one step, and from then on every call of update and of click is issued
\* on the new connection: a handler only ever calls the connection opened
\* last, never one that has been replaced.
C15_ReplacedHandleNeverUsed ==
    HandlerStep =>
        /\ last.outcome = "reconnected" =>
              /\ mpd_conn = Len(conns)
              /\ conns[mpd_conn] = "open"
              /\ last.calls[Len(last.calls)]
                    = Call("connect", mpd_conn, 0, TRUE)
        /\ \A k \in 1..Len(last.calls) :
              last.calls[k].call # "connect"
                  => last.calls[k].conn = Len(conns) - ConnectsAfter(k)

C15_Witness ==
    /\ last.op = "click"
    /\ event_matches(last.event)
    /\ mpd_conn = 2
    /\ conns[1] = "closed"
    /\ last.calls[1] = Call("prev", 2, 0, TRUE)
    /\ last.outcome = "rendered"

\* The connect attempts among the calls of the last invocation.
ConnectAttempts ==
    { k \in 1..Len(last.calls) : last.calls[k].call = "connect" }

\* C16: an update makes at most one connect attempt, and only after its own
\* status probe failed and the handle was closed; a failed attempt is the last
\* call of the invocation: the widget keeps no usable connection and update
\* returns its interval without an error.
C16_OneConnectAttempt ==
    HandlerStep =>
        /\ Cardinality(ConnectAttempts) <= 1
        /\ \A k \in ConnectAttempts :
              /\ k >= 3
              /\ k = Len(last.calls)
              /\ last.calls[k - 2].call = "status"
              /\ ~last.calls[k - 2].ok
              /\ last.calls[k - 1].call = "close"
              /\ ~last.calls[k].ok =>
                    /\ last.outcome = "reconnect_failed"
                    /\ phase = "alive"
                    /\ conns[mpd_conn] # "open"
                    /\ last.op = "update" => last.ret = "Ok(Some(interval))"
                    /\ last.op = "click" => last.ret = "Ok(())"

C16_Witness ==
    /\ last.op = "update"
    /\ last.calls = << Call("status", mpd_conn, 0, FALSE),
                       Call("close", mpd_conn, 0, FALSE),
                       Call("connect", 0, 0, FALSE) >>
    /\ last.ret = "Ok(Some(interval))"
    /\ conns[mpd_conn] = "closed"

\* The player is reachable and the last step left it and the link as they
\* were: it was neither a change of the surroundings nor a step of a handler
\* during which they changed.
Answering == reachable /\ last.op # "remote" /\ ~last.changed
WidgetBuilt == mpd_conn # 0

\* C17: when from some point on the player is reachable and answers every
\* query, a built widget under its timer eventually shows, and keeps showing,
\* a full render of the template, which is the render of the player whenever
\* no handler is running.
C17_EventuallyFullRender ==
    <>[]Answering
        => <>[](WidgetBuilt =>
                   /\ phase = "alive"
                   /\ IsRender(format, text)
                   /\ Completed => text = full_render(format, player))

\* C18: a click whose command failed leaves the connection as it was: the
\* step in which it returns keeps the held handle and closes or opens no
\* handle, and the click issued neither a close nor a connect.
C18_FailedClickKeepsConnection ==
    [][ (last'.op = "click" /\ last'.outcome = "no_update")
            => /\ mpd_conn' = mpd_conn
               /\ conns' = conns
               /\ \A k \in 1..Len(last'.calls) :
                     last'.calls[k].call \notin { "close", "connect" } ]_vars

C18_Witness ==
    /\ last.op = "click"
    /\ last.ret = "Err"
    /\ last.outcome = "no_update"
    /\ last.calls = << Call("next", mpd_conn, 0, FALSE) >>
    /\ conns[mpd_conn] = "open"

\* The render of the player's status and of the one track at position p.
SnapshotRender(p) ==
    render_static_str(format,
        format_values(status(player), currentsong(Moved(player, p)),
                      currentsong(Moved(player, p)),
                      currentsong(Moved(player, p))))

\* C19: the title, the artist and the length of every completed full render
\* describe one and the same track of the player, also when the player
\* changes or clears its track while update runs.
C19_RenderIsOneSnapshot ==
    (HandlerStep /\ last.outcome = "rendered")
        => \E p \in Positions : text = SnapshotRender(p)

\* The calls issued in a step: those of the invocation it begins, or those
\* it adds to the invocation in progress.
IssuedNow ==
    IF run.pc = "idle" THEN last'.calls
    ELSE SubSeq(last'.calls, Len(last.calls) + 1, Len(last'.calls))

\* C20: no call is ever issued on a handle that an earlier update has closed,
\* whether or not a new connection has replaced it.
C20_ClosedHandleNeverCalled ==
    [][ last'.op \in { "update", "click" }
            => \A k \in 1..Len(IssuedNow) :
                  IssuedNow[k].call # "connect"
                      => conns[IssuedNow[k].conn] # "closed" ]_vars

====
